---- MODULE Spec2Model ----
(***************************************************************************)
(* gtdb_downloader: taxon matching over the metadata catalog               *)
(* (metadata.py), NCBI download link derivation (downloader.py) and the    *)
(* plan / transfer / reconcile run of download_genomes_for_taxon (cli.py). *)
(*                                                                         *)
(* A Python str is modelled as a sequence of one-character strings, so     *)
(* that strip, split, lower and slicing are computed, not assumed.         *)
(***************************************************************************)
EXTENDS Integers, Sequences, FiniteSets, TLC

VARIABLES
    pc,      \* position of the caller: which call is pending / what has returned
    arg,     \* argument of the function under call (pure-function specifications)
    ret,     \* its result: [raised |-> BOOLEAN, value |-> ...]
    \* download_genomes_for_taxon: inputs and environment
    data,               \* parser.data: the catalog, in file order
    taxon,              \* the query
    dry_run,            \* the dry_run argument
    aria2,              \* what check_aria2c_available() answers
    fs,                 \* genome paths that exist (genome_path.exists())
    links,              \* symlinks that exist in the taxonomy tree
    \* download_genomes_for_taxon: locals
    matching_genomes,
    idx,                \* position of the running for loop (1-based)
    downloadable,
    failed_count,
    downloaded_count,
    missing_downloads,
    batch_results,
    result,             \* the value returned: "none" until the run ends
    \* what the run did, as seen from outside
    fallback_calls,     \* the (url, path) of every download_file call, in order
    batch_calls,        \* the list handed to every download_files_aria2 call
    verdict             \* per entry of downloadable: "downloaded" or "failed"

runVars ==
    <<data, taxon, dry_run, aria2, fs, links, matching_genomes, idx,
      downloadable, failed_count, downloaded_count, missing_downloads,
      batch_results, result, fallback_calls, batch_calls, verdict>>

vars == <<pc, arg, ret, runVars>>

\* an empty dict
EmptyMap == [p \in {} |-> FALSE]

\* the run's variables where no run takes place
RunIdle ==
    /\ data = <<>>
    /\ taxon = <<>>
    /\ dry_run = FALSE
    /\ aria2 = FALSE
    /\ fs = {}
    /\ links = {}
    /\ matching_genomes = <<>>
    /\ idx = 1
    /\ downloadable = <<>>
    /\ failed_count = 0
    /\ downloaded_count = 0
    /\ missing_downloads = <<>>
    /\ batch_results = EmptyMap
    /\ result = "none"
    /\ fallback_calls = <<>>
    /\ batch_calls = <<>>
    /\ verdict = <<>>

(***************************************************************************)
(* str primitives                                                          *)
(***************************************************************************)
\* str.lower on one ASCII character
LowerChar(c) ==
    CASE c = "A" -> "a" [] c = "B" -> "b" [] c = "C" -> "c" [] c = "D" -> "d"
      [] c = "E" -> "e" [] c = "F" -> "f" [] c = "G" -> "g" [] c = "H" -> "h"
      [] c = "I" -> "i" [] c = "J" -> "j" [] c = "K" -> "k" [] c = "L" -> "l"
      [] c = "M" -> "m" [] c = "N" -> "n" [] c = "O" -> "o" [] c = "P" -> "p"
      [] c = "Q" -> "q" [] c = "R" -> "r" [] c = "S" -> "s" [] c = "T" -> "t"
      [] c = "U" -> "u" [] c = "V" -> "v" [] c = "W" -> "w" [] c = "X" -> "x"
      [] c = "Y" -> "y" [] c = "Z" -> "z" [] OTHER -> c

\* str.lower
Lower(s) == [k \in 1..Len(s) |-> LowerChar(s[k])]

\* str.strip (whitespace at both ends)
RECURSIVE LStrip(_)
LStrip(s) == IF s # <<>> /\ Head(s) = " " THEN LStrip(Tail(s)) ELSE s

RECURSIVE RStrip(_)
RStrip(s) ==
    IF s # <<>> /\ s[Len(s)] = " " THEN RStrip(SubSeq(s, 1, Len(s) - 1)) ELSE s

Strip(s) == RStrip(LStrip(s))

\* str.split(sep) for a one-character separator: empty pieces are kept
RECURSIVE Split(_, _)
Split(s, sep) ==
    LET at == {k \in 1..Len(s) : s[k] = sep}
    IN  IF at = {} THEN <<s>>
        ELSE LET first == CHOOSE k \in at : \A j \in at : k <= j
             IN  <<SubSeq(s, 1, first - 1)>>
                 \o Split(SubSeq(s, first + 1, Len(s)), sep)

\* sub in s, for a non-empty sub
Contains(s, sub) ==
    \E k \in 1..(Len(s) - Len(sub) + 1) : SubSeq(s, k, k + Len(sub) - 1) = sub

\* s.startswith(p)
StartsWith(s, p) == Len(s) >= Len(p) /\ SubSeq(s, 1, Len(p)) = p

RankSep == <<"_", "_">>

(***************************************************************************)
(* metadata.py: MetadataParser                                             *)
(***************************************************************************)
\* "__" in component
HasRankPrefix(component) == Contains(component, RankSep)

\* _strip_rank_prefix: component.split("__", 1)[1] when "__" occurs
StripRankPrefix(component) ==
    IF HasRankPrefix(component)
    THEN LET k == CHOOSE k \in 1..(Len(component) - 1) :
                      /\ SubSeq(component, k, k + 1) = RankSep
                      /\ \A j \in 1..(k - 1) : SubSeq(component, j, j + 1) # RankSep
         IN  SubSeq(component, k + 2, Len(component))
    ELSE component

\* [part.strip() for part in parts if part.strip()]
RECURSIVE StripKeepNonEmpty(_)
StripKeepNonEmpty(parts) ==
    IF parts = <<>> THEN <<>>
    ELSE (IF Strip(Head(parts)) # <<>> THEN <<Strip(Head(parts))>> ELSE <<>>)
         \o StripKeepNonEmpty(Tail(parts))

\* [part.strip() for part in s.split(";") if part.strip()]
Segments(s) == StripKeepNonEmpty(Split(s, ";"))

\* get_taxonomy_components
GetTaxonomyComponents(taxonomy_str) ==
    IF taxonomy_str = <<>> THEN <<>> ELSE Segments(taxonomy_str)

\* a list of components, each lowered
LowerAll(components) == [k \in 1..Len(components) |-> Lower(components[k])]

NamesAsWritten(components) ==
    [k \in 1..Len(components) |-> StripRankPrefix(components[k])]

\* the names of a list of components, each lowered
NamesLower(components) ==
    [k \in 1..Len(components) |-> Lower(StripRankPrefix(components[k]))]

PathMatchUnanchored(query_components, taxonomy_components) ==
    LET q == LowerAll(query_components)
        t == LowerAll(taxonomy_components)
    IN  \E off \in 0..(Len(t) - Len(q)) :
            \A i \in 1..Len(q) :
                IF HasRankPrefix(q[i])
                THEN q[i] = t[off + i]
                ELSE NamesLower(query_components)[i]
                         = NamesLower(taxonomy_components)[off + i]

\* the path-query branch: is_match after the loop, FALSE when the query is longer
PathMatch(query_components, taxonomy_components) ==
    LET query_components_lower    == LowerAll(query_components)
        query_names_lower         == NamesLower(query_components)
        taxonomy_components_lower == LowerAll(taxonomy_components)
        taxonomy_names_lower      == NamesLower(taxonomy_components)
    IN  /\ Len(query_components_lower) <= Len(taxonomy_components_lower)
        /\ \A i \in 1..Len(query_components_lower) :
               IF HasRankPrefix(query_components_lower[i])
               THEN query_components_lower[i] = taxonomy_components_lower[i]
               ELSE query_names_lower[i] = taxonomy_names_lower[i]

SingleMatchSubstring(query_components, taxonomy_components) ==
    LET query_part == Lower(query_components[1])
        query_name == Lower(StripRankPrefix(query_components[1]))
        t          == LowerAll(taxonomy_components)
    IN  IF HasRankPrefix(query_part)
        THEN \E k \in 1..Len(t) : Contains(t[k], query_part)
        ELSE \E k \in 1..Len(t) : Contains(t[k], query_name)

\* the single-taxon branch, for a query of one component
SingleMatch(query_components, taxonomy_components) ==
    LET query_part                == Lower(query_components[1])
        query_name                == Lower(StripRankPrefix(query_components[1]))
        taxonomy_components_lower == LowerAll(taxonomy_components)
        taxonomy_names_lower      == NamesLower(taxonomy_components)
    IN  IF HasRankPrefix(query_part)
        THEN \E k \in 1..Len(taxonomy_components_lower) :
                 taxonomy_components_lower[k] = query_part
        ELSE \E k \in 1..Len(taxonomy_names_lower) :
                 taxonomy_names_lower[k] = query_name

\* one iteration of the loop over self.data: "skip", "match", or "raise" when
\* query_components_lower[0] is read from an empty list (IndexError)
RowOutcome(query_components, taxonomy) ==
    IF taxonomy = <<>> THEN "skip"
    ELSE LET taxonomy_components == GetTaxonomyComponents(taxonomy)
         IN  IF Len(query_components) > 1
             THEN (IF PathMatch(query_components, taxonomy_components)
                   THEN "match" ELSE "skip")
             ELSE IF Len(query_components) = 0
             THEN "raise"
             ELSE (IF SingleMatch(query_components, taxonomy_components)
                   THEN "match" ELSE "skip")

\* the ids of data[k..], in order, whose row matched
RECURSIVE MatchedIds(_, _)
MatchedIds(rows, outcomes) ==
    IF rows = <<>> THEN <<>>
    ELSE (IF Head(outcomes) = "match" THEN <<Head(rows).id>> ELSE <<>>)
         \o MatchedIds(Tail(rows), Tail(outcomes))

\* get_genomes_by_taxon(taxon) over self.data: the list returned, or raised
GetGenomesByTaxon(rows, query_text) ==
    LET query == Strip(query_text)
    IN  IF query = <<>>
        THEN [raised |-> FALSE, value |-> <<>>]
        ELSE LET query_components == Segments(query)
                 outcomes == [k \in 1..Len(rows) |->
                                 RowOutcome(query_components,
                                            rows[k].row.gtdb_taxonomy)]
             IN  IF \E k \in 1..Len(rows) : outcomes[k] = "raise"
                 THEN [raised |-> TRUE, value |-> <<>>]
                 ELSE [raised |-> FALSE, value |-> MatchedIds(rows, outcomes)]

(***************************************************************************)
(* Inputs of the matching specification                                    *)
(***************************************************************************)
MaxQueryComps == 2
MaxTaxComps == 3

Comp_dA  == <<"d", "_", "_", "A">>
Comp_pAb == <<"p", "_", "_", "A", "b">>
Comp_pA  == <<"p", "_", "_", "A">>
Comp_A   == <<"A">>
Comp_ab  == <<"a", "b">>

QueryComponents == {Comp_dA, Comp_pAb, Comp_A, Comp_ab}
TaxComponents   == {Comp_dA, Comp_pAb, Comp_pA}

SeqsUpTo(S, n) == UNION {[1..k -> S] : k \in 0..n}

RECURSIVE Join(_, _)
Join(parts, sep) ==
    IF parts = <<>> THEN <<>>
    ELSE IF Len(parts) = 1 THEN Head(parts)
    ELSE Head(parts) \o sep \o Join(Tail(parts), sep)

\* a written form of a component list: bare, with blanks around every
\* component, or with blanks and empty segments
Render(comps, style) ==
    LET padded == [k \in 1..Len(comps) |-> <<" ">> \o comps[k] \o <<" ">>]
    IN  CASE style = "plain"  -> Join(comps, <<";">>)
          [] style = "padded" -> IF comps = <<>> THEN <<" ">>
                                 ELSE Join(padded, <<";">>)
          [] style = "messy"  -> <<" ", ";">> \o Join(padded, <<";", " ", ";">>)
                                 \o <<";", " ">>

QueryStyles == {"plain", "padded", "messy"}
TaxStyles   == {"plain", "messy"}

Queries ==
    {Render(c, st) : c \in SeqsUpTo(QueryComponents, MaxQueryComps), st \in QueryStyles}

Taxonomies ==
    {Render(c, st) : c \in SeqsUpTo(TaxComponents, MaxTaxComps), st \in TaxStyles}

Acc_1 == <<"G", "C", "F", "_", "0", "3", "4", "7", "1", "9", "2">>
Asm_1 == <<"A", "S", "M", "1">>

\* a csv.DictReader row; an absent column reads as the empty string
Row(accession, assembly, taxonomy) ==
    [accession |-> accession, ncbi_assembly_name |-> assembly,
     gtdb_taxonomy |-> taxonomy]

\* an item of self.data: genome_id -> row
Entry(row) == [id |-> row.accession, row |-> row]

(***************************************************************************)
(* SpecMatch: one call of get_genomes_by_taxon on a catalog of at most one *)
(* row                                                                     *)
(***************************************************************************)
InitMatch ==
    /\ pc = "call_match"
    /\ \E q \in Queries :
           \/ arg = [taxon |-> q, data |-> <<>>]
           \/ \E t \in Taxonomies :
                  arg = [taxon |-> q, data |-> <<Entry(Row(Acc_1, Asm_1, t))>>]
    /\ ret = [raised |-> FALSE, value |-> <<>>]
    /\ RunIdle

CallGetGenomesByTaxon ==
    /\ pc = "call_match"
    /\ ret' = GetGenomesByTaxon(arg.data, arg.taxon)
    /\ pc' = "returned_match"
    /\ UNCHANGED <<arg, runVars>>

NextMatch == CallGetGenomesByTaxon

SpecMatch == InitMatch /\ [][NextMatch]_vars

(***************************************************************************)
(* Properties of get_genomes_by_taxon (checked under SpecMatch)            *)
(***************************************************************************)
Returned == pc = "returned_match"

IsIn(x, list) == \E k \in 1..Len(list) : list[k] = x

\* equality of a query component and a taxonomy component as the
\* specification words it: verbatim when the query component carries a rank
\* prefix, by bare name when it does not, ignoring case
ComponentEq(qc, tc) ==
    IF HasRankPrefix(qc)
    THEN Lower(qc) = Lower(tc)
    ELSE Lower(qc) = Lower(StripRankPrefix(tc))

\* C1: a query of more than one component returns a record iff the record's
\* taxonomy has at least as many components as the query and every query
\* component equals the taxonomy component at the same position from the
\* root; so never a non-leading subsequence, never a shorter taxonomy.
C1_PathQueryAnchored ==
    (Returned /\ Len(Segments(arg.taxon)) > 1) =>
        /\ ~ret.raised
        /\ \A k \in 1..Len(arg.data) :
               LET qc == Segments(arg.taxon)
                   tc == Segments(arg.data[k].row.gtdb_taxonomy)
               IN  IsIn(arg.data[k].id, ret.value)
                   <=> /\ Len(tc) >= Len(qc)
                       /\ \A i \in 1..Len(qc) : ComponentEq(qc[i], tc[i])

\* a path query with a prefixed and a bare component, the bare one written in
\* another case than the taxonomy, matched a longer taxonomy
C1_Witness ==
    /\ Returned
    /\ Len(arg.data) = 1
    /\ LET qc == Segments(arg.taxon)
           tc == Segments(arg.data[1].row.gtdb_taxonomy)
       IN  /\ Len(qc) > 1
           /\ Len(tc) > Len(qc)
           /\ \E i \in 1..Len(qc) : HasRankPrefix(qc[i])
           /\ \E i \in 1..Len(qc) :
                  ~HasRankPrefix(qc[i]) /\ qc[i] # StripRankPrefix(tc[i])
           /\ ret.value = <<arg.data[1].id>>

\* C2: a query of one component returns a record iff that component equals
\* one whole component of the record's taxonomy; a proper substring of a
\* component never matches.
C2_BareQueryExact ==
    (Returned /\ Len(Segments(arg.taxon)) = 1) =>
        /\ ~ret.raised
        /\ \A k \in 1..Len(arg.data) :
               LET qc == Segments(arg.taxon)[1]
                   tc == Segments(arg.data[k].row.gtdb_taxonomy)
               IN  IsIn(arg.data[k].id, ret.value)
                   <=> \E i \in 1..Len(tc) : ComponentEq(qc, tc[i])

\* a one-component query that is a proper substring of a component of the
\* taxonomy, and of no component the whole, returned nothing
C2_Witness ==
    /\ Returned
    /\ Len(arg.data) = 1
    /\ LET qs == Segments(arg.taxon)
           tc == Segments(arg.data[1].row.gtdb_taxonomy)
       IN  /\ Len(qs) = 1
           /\ \E i \in 1..Len(tc) :
                  Contains(Lower(tc[i]), Lower(qs[1])) /\ Len(tc[i]) > Len(qs[1])
           /\ ret = [raised |-> FALSE, value |-> <<>>]

\* t.lower() in every row
LowerData(rows) ==
    [k \in 1..Len(rows) |->
        [rows[k] EXCEPT !.row.gtdb_taxonomy = Lower(rows[k].row.gtdb_taxonomy)]]

\* blanks put around every component of a written list
PadComponents(s) ==
    LET pieces == Split(s, ";")
    IN  Join([k \in 1..Len(pieces) |->
                 IF Strip(pieces[k]) # <<>>
                 THEN <<" ">> \o pieces[k] \o <<" ">>
                 ELSE pieces[k]], <<";">>)

PadData(rows) ==
    [k \in 1..Len(rows) |->
        [rows[k] EXCEPT !.row.gtdb_taxonomy =
                            PadComponents(rows[k].row.gtdb_taxonomy)]]

\* C3: matching is case-insensitive, matches(q, t) = matches(q.lower(),
\* t.lower()), and blanks around the query or around any component do not
\* change the result.
C3_CaseAndBlankInsensitive ==
    Returned =>
        /\ ret = GetGenomesByTaxon(LowerData(arg.data), Lower(arg.taxon))
        /\ ret = GetGenomesByTaxon(PadData(arg.data),
                                   <<" ">> \o PadComponents(arg.taxon) \o <<" ">>)

\* a record matched by a query written in another case than its taxonomy
C3_Witness ==
    /\ Returned
    /\ Len(arg.data) = 1
    /\ ret.value = <<arg.data[1].id>>
    /\ Lower(arg.data[1].row.gtdb_taxonomy) # arg.data[1].row.gtdb_taxonomy
    /\ \A i \in 1..Len(Segments(arg.taxon)) :
           Segments(arg.taxon)[i] = Lower(Segments(arg.taxon)[i])

\* C4: a query with no component after segmentation and trimming (empty,
\* blank, or only semicolons and blanks) returns the empty list over any
\* catalog and does not fail.
C4_EmptyQueryReturnsEmpty ==
    (Returned /\ Segments(arg.taxon) = <<>>) =>
        ret = [raised |-> FALSE, value |-> <<>>]

(***************************************************************************)
(* downloader.py: generate_download_link                                   *)
(***************************************************************************)
\* s[a:b] and s[a:], zero-based as in Python
Slice(s, a, b) == SubSeq(s, a + 1, IF b < Len(s) THEN b ELSE Len(s))

SliceFrom(s, a) == SubSeq(s, a + 1, Len(s))

Str_RS  == <<"R", "S", "_">>
Str_GB  == <<"G", "B", "_">>
Str_GCA == <<"G", "C", "A", "_">>
Str_GCF == <<"G", "C", "F", "_">>

base_url ==
    <<"h", "t", "t", "p", "s", ":", "/", "/", "f", "t", "p", ".", "n", "c",
      "b", "i", ".", "n", "l", "m", ".", "n", "i", "h", ".", "g", "o", "v",
      "/", "g", "e", "n", "o", "m", "e", "s", "/", "a", "l", "l">>

GenomicSuffix ==
    <<"_", "g", "e", "n", "o", "m", "i", "c", ".", "f", "n", "a", ".", "g", "z">>

LinkAccRefSeqOnly(accession) ==
    IF StartsWith(accession, Str_RS) THEN SliceFrom(accession, 3) ELSE accession

\* acc: the accession without a leading RS_ or GB_
LinkAcc(accession) ==
    IF StartsWith(accession, Str_RS) THEN SliceFrom(accession, 3)
    ELSE IF StartsWith(accession, Str_GB) THEN SliceFrom(accession, 3)
    ELSE accession

\* numeric_id = acc.split("_")[1].split(".")[0]
NumericId(acc) == Split(Split(acc, "_")[2], ".")[1]

D1(numeric_id) == Slice(numeric_id, 0, 3)

D2(numeric_id) == IF Len(numeric_id) >= 6 THEN Slice(numeric_id, 3, 6) ELSE <<>>

D3(numeric_id) == IF Len(numeric_id) > 6 THEN SliceFrom(numeric_id, 6) ELSE <<>>

Raise(kind) == [raised |-> TRUE, error |-> kind, value |-> <<>>]

Return(value) == [raised |-> FALSE, error |-> "", value |-> value]

\* generate_download_link(genome_metadata): the URL, or the ValueError raised
GenerateDownloadLink(genome_metadata) ==
    LET accession     == genome_metadata.accession
        assembly_name == genome_metadata.ncbi_assembly_name
    IN  IF accession = <<>> \/ assembly_name = <<>>
        THEN Raise("Missing required fields")
        ELSE LET acc == LinkAcc(accession)
             IN  IF ~(StartsWith(acc, Str_GCA) \/ StartsWith(acc, Str_GCF))
                 THEN Raise("Unknown accession format")
                 ELSE IF Len(Split(acc, "_")) < 2
                 THEN Raise("Invalid accession format")
                 ELSE LET numeric_id == NumericId(acc)
                          d1 == D1(numeric_id)
                          d2 == D2(numeric_id)
                          d3 == D3(numeric_id)
                          prefix == Split(acc, "_")[1]
                          dir_path == base_url \o <<"/">> \o prefix \o <<"/">>
                                      \o d1 \o <<"/">> \o d2 \o <<"/">> \o d3
                                      \o <<"/">> \o acc \o <<"_">> \o assembly_name
                          filename == acc \o <<"_">> \o assembly_name
                                      \o GenomicSuffix
                      IN  IF d2 = <<>> \/ d3 = <<>>
                          THEN Raise("Accession numeric ID too short")
                          ELSE Return(dir_path \o <<"/">> \o filename)

(***************************************************************************)
(* SpecUrl: one call of generate_download_link                             *)
(***************************************************************************)
MaxDigits == 8

DigitChars == {"0", "7"}

DigitRuns == SeqsUpTo(DigitChars, MaxDigits)

\* identifiers after GCA_/GCF_: a digit run, or one spoiled by a letter or
\* an underscore
Identifiers ==
    DigitRuns
    \cup {<<"x">> \o r : r \in DigitRuns}
    \cup {r \o <<"x">> : r \in DigitRuns}
    \cup {r \o <<"_", "7">> : r \in DigitRuns}

SourcePrefixes == {<<>>, Str_RS, Str_GB}
Databases      == {Str_GCA, Str_GCF, <<"G", "C", "X", "_">>}
Versions       == {<<>>, <<".", "1">>}
Assemblies     == {<<>>, Asm_1}

InitUrl ==
    /\ pc = "call_link"
    /\ \E src \in SourcePrefixes, db \in Databases, id \in Identifiers,
          ver \in Versions, asm \in Assemblies :
           arg = Row(src \o db \o id \o ver, asm, <<>>)
    /\ ret = Return(<<>>)
    /\ RunIdle

CallGenerateDownloadLink ==
    /\ pc = "call_link"
    /\ ret' = GenerateDownloadLink(arg)
    /\ pc' = "returned_link"
    /\ UNCHANGED <<arg, runVars>>

NextUrl == CallGenerateDownloadLink

SpecUrl == InitUrl /\ [][NextUrl]_vars

(***************************************************************************)
(* Properties of generate_download_link (checked under SpecUrl)            *)
(***************************************************************************)
IsDigit(c) == c \in {"0", "1", "2", "3", "4", "5", "6", "7", "8", "9"}

AllDigits(s) == \A k \in 1..Len(s) : IsDigit(s[k])

\* the accession without its source indicator
Normalized(accession) ==
    IF StartsWith(accession, Str_RS) \/ StartsWith(accession, Str_GB)
    THEN SubSeq(accession, 4, Len(accession))
    ELSE accession

\* what follows GCA_ / GCF_ in a normalized accession
AfterDatabase(accession) ==
    SubSeq(Normalized(accession), 5, Len(Normalized(accession)))

\* the longest leading digit run of s
LeadingDigits(s) ==
    LET n == CHOOSE n \in 0..Len(s) :
                 /\ AllDigits(SubSeq(s, 1, n))
                 /\ n < Len(s) => ~IsDigit(s[n + 1])
    IN  SubSeq(s, 1, n)

\* the normalized accession is GCA_ or GCF_, a digit run of at least n
\* digits and then nothing or a .version suffix
WellFormed(accession, n) ==
    /\ \/ StartsWith(Normalized(accession), Str_GCA)
       \/ StartsWith(Normalized(accession), Str_GCF)
    /\ LET rest == AfterDatabase(accession)
           run  == LeadingDigits(rest)
       IN  /\ Len(run) >= n
           /\ \/ Len(rest) = Len(run)
              \/ /\ rest[Len(run) + 1] = "."
                 /\ Len(rest) > Len(run) + 1
                 /\ AllDigits(SubSeq(rest, Len(run) + 2, Len(rest)))

\* the URL's path segments 7, 8, 9 group the digit run as 3 + 3 + the rest
GroupsDigitRun(url, run) ==
    LET segs == Split(url, "/")
    IN  /\ Len(segs) = 11
        /\ segs[7] = SubSeq(run, 1, 3)
        /\ segs[8] = SubSeq(run, 4, 6)
        /\ segs[9] = SubSeq(run, 7, Len(run))
        /\ segs[9] # <<>>
        /\ segs[7] \o segs[8] \o segs[9] = run

LinkReturned == pc = "returned_link"

\* C5 as stated: every record with an assembly name whose normalized
\* accession is GCA_/GCF_ and a digit run of length >= 6 (with or without a
\* version) gets a URL grouping the run as 3 digits, 3 digits, non-empty rest.
C5_SixDigitsSuffice ==
    (LinkReturned /\ arg.ncbi_assembly_name # <<>> /\ WellFormed(arg.accession, 6)) =>
        /\ ~ret.raised
        /\ GroupsDigitRun(ret.value, LeadingDigits(AfterDatabase(arg.accession)))

\* C5 amended: the same for a digit run of length >= 7 (a run of exactly 6
\* leaves no remainder and is refused as too short).
C5_SevenDigitsGrouped ==
    (LinkReturned /\ arg.ncbi_assembly_name # <<>> /\ WellFormed(arg.accession, 7)) =>
        /\ ~ret.raised
        /\ GroupsDigitRun(ret.value, LeadingDigits(AfterDatabase(arg.accession)))

\* a URL was returned for an RS_-prefixed, versioned accession of 8 digits
C5_Witness ==
    /\ LinkReturned
    /\ StartsWith(arg.accession, Str_RS)
    /\ WellFormed(arg.accession, 8)
    /\ Len(AfterDatabase(arg.accession)) = 10
    /\ ~ret.raised
    /\ Len(Split(ret.value, "/")[9]) = 2

\* C6: generate_download_link raises, and builds no URL, for every record
\* whose normalized accession is not GCA_/GCF_ followed by a run of at least
\* 6 digits (and an optional version), identifiers with non-digit characters
\* included.
C6_MalformedAlwaysRaises ==
    (LinkReturned /\ ~WellFormed(arg.accession, 6)) =>
        (ret.raised /\ ret.value = <<>>)

(***************************************************************************)
(* cli.py: download_genomes_for_taxon, from the matching at line 104 on    *)
(***************************************************************************)
\* parser.get_genome_metadata / parser.get_taxon_path: None for an unknown id
GetGenomeMetadata(rows, genome_id) ==
    IF \E k \in 1..Len(rows) : rows[k].id = genome_id
    THEN [found |-> TRUE,
          row |-> rows[CHOOSE k \in 1..Len(rows) : rows[k].id = genome_id].row]
    ELSE [found |-> FALSE, row |-> Row(<<>>, <<>>, <<>>)]

\* download_url.split("/")[-1]
Filename(url) == Split(url, "/")[Len(Split(url, "/"))]

\* dict.get(key, default)
MapGet(map, key, default) == IF key \in DOMAIN map THEN map[key] ELSE default

\* map[key] = value
MapPut(map, key, value) ==
    [p \in DOMAIN map \cup {key} |-> IF p = key THEN value ELSE map[p]]

\* [(url, genome_path) for ... in entries if not genome_path.exists()]
RECURSIVE MissingOf(_, _)
MissingOf(entries, existing) ==
    IF entries = <<>> THEN <<>>
    ELSE (IF Head(entries).genome_path \notin existing
          THEN <<[url |-> Head(entries).url,
                  genome_path |-> Head(entries).genome_path]>>
          ELSE <<>>)
         \o MissingOf(Tail(entries), existing)

\* what a transfer of one target can leave behind: success with the file,
\* failure with no file, failure with a (partial) file at the target
TransferOutcomes == {"ok", "fail", "partial"}

\* lines 104-129: the matching, the two early returns, the start of planning
FindMatching ==
    /\ pc = "find_matching"
    /\ LET found == GetGenomesByTaxon(data, taxon)
       IN  IF found.raised
           THEN /\ pc' = "crashed"
                /\ result' = "raised"
                /\ UNCHANGED matching_genomes
           ELSE IF found.value = <<>>
           THEN /\ pc' = "done"
                /\ result' = "False"
                /\ UNCHANGED matching_genomes
           ELSE IF dry_run
           THEN /\ pc' = "done"
                /\ result' = "True"
                /\ matching_genomes' = found.value
           ELSE /\ pc' = "plan"
                /\ result' = "none"
                /\ matching_genomes' = found.value
    /\ idx' = 1
    /\ downloadable' = <<>>
    /\ failed_count' = 0
    /\ UNCHANGED <<arg, ret, data, taxon, dry_run, aria2, fs, links,
                   downloaded_count, missing_downloads, batch_results,
                   fallback_calls, batch_calls, verdict>>

PlanStepAbortOnFailure ==
    /\ pc = "plan"
    /\ idx <= Len(matching_genomes)
    /\ LET genome_id       == matching_genomes[idx]
           genome_metadata == GetGenomeMetadata(data, genome_id)
           link            == GenerateDownloadLink(genome_metadata.row)
       IN  IF ~genome_metadata.found \/ link.raised
           THEN /\ failed_count' = failed_count + 1
                /\ idx' = Len(matching_genomes) + 1
                /\ UNCHANGED downloadable
           ELSE /\ downloadable' =
                       Append(downloadable,
                              [genome_id    |-> genome_id,
                               taxonomy_str |-> genome_metadata.row.gtdb_taxonomy,
                               url          |-> link.value,
                               genome_path  |-> Filename(link.value)])
                /\ idx' = idx + 1
                /\ UNCHANGED failed_count
    /\ UNCHANGED <<pc, arg, ret, data, taxon, dry_run, aria2, fs, links,
                   matching_genomes, downloaded_count, missing_downloads,
                   batch_results, result, fallback_calls, batch_calls, verdict>>

PlanStepUncountedSkip ==
    /\ pc = "plan"
    /\ idx <= Len(matching_genomes)
    /\ LET genome_id       == matching_genomes[idx]
           genome_metadata == GetGenomeMetadata(data, genome_id)
           link            == GenerateDownloadLink(genome_metadata.row)
       IN  IF ~genome_metadata.found \/ link.raised
           THEN UNCHANGED <<failed_count, downloadable>>
           ELSE /\ downloadable' =
                       Append(downloadable,
                              [genome_id    |-> genome_id,
                               taxonomy_str |-> genome_metadata.row.gtdb_taxonomy,
                               url          |-> link.value,
                               genome_path  |-> Filename(link.value)])
                /\ UNCHANGED failed_count
    /\ idx' = idx + 1
    /\ UNCHANGED <<pc, arg, ret, data, taxon, dry_run, aria2, fs, links,
                   matching_genomes, downloaded_count, missing_downloads,
                   batch_results, result, fallback_calls, batch_calls, verdict>>

\* lines 131-171: one iteration of the planning loop
PlanStep ==
    /\ pc = "plan"
    /\ idx <= Len(matching_genomes)
    /\ LET genome_id       == matching_genomes[idx]
           genome_metadata == GetGenomeMetadata(data, genome_id)
           link            == GenerateDownloadLink(genome_metadata.row)
       IN  IF ~genome_metadata.found
           THEN \* genome_metadata is None, or tax_info is None
                /\ failed_count' = failed_count + 1
                /\ UNCHANGED downloadable
           ELSE IF link.raised
           THEN /\ failed_count' = failed_count + 1
                /\ UNCHANGED downloadable
           ELSE /\ downloadable' =
                       Append(downloadable,
                              [genome_id    |-> genome_id,
                               taxonomy_str |-> genome_metadata.row.gtdb_taxonomy,
                               url          |-> link.value,
                               genome_path  |-> Filename(link.value)])
                /\ UNCHANGED failed_count
    /\ idx' = idx + 1
    /\ UNCHANGED <<pc, arg, ret, data, taxon, dry_run, aria2, fs, links,
                   matching_genomes, downloaded_count, missing_downloads,
                   batch_results, result, fallback_calls, batch_calls, verdict>>

SelectMissingAll ==
    /\ pc = "plan"
    /\ idx > Len(matching_genomes)
    /\ missing_downloads' = MissingOf(downloadable, {})
    /\ batch_results' = EmptyMap
    /\ pc' = IF missing_downloads' = <<>> THEN "reconcile"
             ELSE IF aria2 THEN "batch" ELSE "fallback"
    /\ idx' = 1
    /\ downloaded_count' = 0
    /\ UNCHANGED <<arg, ret, data, taxon, dry_run, aria2, fs, links,
                   matching_genomes, downloadable, failed_count, result,
                   fallback_calls, batch_calls, verdict>>

\* lines 173-205 up to the transfer: the to-fetch list and the choice of the
\* transfer mechanism
SelectMissing ==
    /\ pc = "plan"
    /\ idx > Len(matching_genomes)
    /\ missing_downloads' = MissingOf(downloadable, fs)
    /\ batch_results' = EmptyMap
    /\ pc' = IF missing_downloads' = <<>> THEN "reconcile"
             ELSE IF aria2 THEN "batch" ELSE "fallback"
    /\ idx' = 1
    /\ downloaded_count' = 0
    /\ UNCHANGED <<arg, ret, data, taxon, dry_run, aria2, fs, links,
                   matching_genomes, downloadable, failed_count, result,
                   fallback_calls, batch_calls, verdict>>

\* lines 189-198: download_files_aria2(missing_downloads): one batch job, a
\* success flag per target path
DownloadFilesAria2 ==
    /\ pc = "batch"
    /\ LET targets == {missing_downloads[k].genome_path :
                          k \in 1..Len(missing_downloads)}
       IN  \E outcome \in [targets -> TransferOutcomes] :
               /\ batch_results' = [p \in targets |-> outcome[p] = "ok"]
               /\ fs' = fs \cup {p \in targets : outcome[p] # "fail"}
    /\ batch_calls' = Append(batch_calls, missing_downloads)
    /\ pc' = "reconcile"
    /\ idx' = 1
    /\ UNCHANGED <<arg, ret, data, taxon, dry_run, aria2, links,
                   matching_genomes, downloadable, failed_count,
                   downloaded_count, missing_downloads, result,
                   fallback_calls, verdict>>

FallbackStepSkipPresent ==
    /\ pc = "fallback"
    /\ idx <= Len(missing_downloads)
    /\ LET target == missing_downloads[idx]
       IN  IF target.genome_path \in fs
           THEN UNCHANGED <<batch_results, fs, fallback_calls>>
           ELSE \E wget \in BOOLEAN, transfer \in TransferOutcomes :
                    LET outcome == IF wget THEN transfer ELSE "fail"
                    IN  /\ batch_results' =
                               MapPut(batch_results, target.genome_path,
                                      outcome = "ok")
                        /\ fs' = IF outcome = "fail" THEN fs
                                 ELSE fs \cup {target.genome_path}
                        /\ fallback_calls' = Append(fallback_calls, target)
    /\ IF idx = Len(missing_downloads)
       THEN pc' = "reconcile" /\ idx' = 1
       ELSE pc' = pc /\ idx' = idx + 1
    /\ UNCHANGED <<arg, ret, data, taxon, dry_run, aria2, links,
                   matching_genomes, downloadable, failed_count,
                   downloaded_count, missing_downloads, result, batch_calls,
                   verdict>>

\* lines 199-203: one iteration of the sequential loop, a call of
\* download_file(url, genome_path, use_aria2=False) (downloader.py 190-215:
\* wget when it is installed, else False)
FallbackStep ==
    /\ pc = "fallback"
    /\ idx <= Len(missing_downloads)
    /\ LET target == missing_downloads[idx]
       IN  \E wget \in BOOLEAN, transfer \in TransferOutcomes :
               LET outcome == IF wget THEN transfer ELSE "fail"
               IN  /\ batch_results' =
                          MapPut(batch_results, target.genome_path,
                                 outcome = "ok")
                   /\ fs' = IF outcome = "fail" THEN fs
                            ELSE fs \cup {target.genome_path}
                   /\ fallback_calls' = Append(fallback_calls, target)
    /\ IF idx = Len(missing_downloads)
       THEN pc' = "reconcile" /\ idx' = 1
       ELSE pc' = pc /\ idx' = idx + 1
    /\ UNCHANGED <<arg, ret, data, taxon, dry_run, aria2, links,
                   matching_genomes, downloadable, failed_count,
                   downloaded_count, missing_downloads, result, batch_calls,
                   verdict>>

ReconcileStepTrustReport ==
    /\ pc = "reconcile"
    /\ idx <= Len(downloadable)
    /\ LET entry == downloadable[idx]
       IN  IF ~MapGet(batch_results, entry.genome_path, FALSE)
           THEN /\ failed_count' = failed_count + 1
                /\ verdict' = Append(verdict, "failed")
                /\ UNCHANGED <<downloaded_count, links>>
           ELSE /\ \E link_ok \in BOOLEAN :
                       links' = IF link_ok
                                THEN links \cup {<<entry.taxonomy_str,
                                                   entry.genome_path>>}
                                ELSE links
                /\ downloaded_count' = downloaded_count + 1
                /\ verdict' = Append(verdict, "downloaded")
                /\ UNCHANGED failed_count
    /\ idx' = idx + 1
    /\ UNCHANGED <<pc, arg, ret, data, taxon, dry_run, aria2, fs,
                   matching_genomes, downloadable, missing_downloads,
                   batch_results, result, fallback_calls, batch_calls>>

ReconcileStepLinkFatal ==
    /\ pc = "reconcile"
    /\ idx <= Len(downloadable)
    /\ LET entry == downloadable[idx]
       IN  IF /\ entry.genome_path \notin fs
              /\ ~MapGet(batch_results, entry.genome_path, FALSE)
           THEN /\ failed_count' = failed_count + 1
                /\ verdict' = Append(verdict, "failed")
                /\ UNCHANGED <<downloaded_count, links>>
           ELSE \E link_ok \in BOOLEAN :
                    IF link_ok
                    THEN /\ links' = links \cup {<<entry.taxonomy_str,
                                                   entry.genome_path>>}
                         /\ downloaded_count' = downloaded_count + 1
                         /\ verdict' = Append(verdict, "downloaded")
                         /\ UNCHANGED failed_count
                    ELSE /\ failed_count' = failed_count + 1
                         /\ verdict' = Append(verdict, "failed")
                         /\ UNCHANGED <<downloaded_count, links>>
    /\ idx' = idx + 1
    /\ UNCHANGED <<pc, arg, ret, data, taxon, dry_run, aria2, fs,
                   matching_genomes, downloadable, missing_downloads,
                   batch_results, result, fallback_calls, batch_calls>>

\* lines 208-245: one iteration of the reconciliation loop; the symlink
\* block may fail (caught at line 241) and leave no link
ReconcileStep ==
    /\ pc = "reconcile"
    /\ idx <= Len(downloadable)
    /\ LET entry == downloadable[idx]
       IN  IF /\ entry.genome_path \notin fs
              /\ ~MapGet(batch_results, entry.genome_path, FALSE)
           THEN /\ failed_count' = failed_count + 1
                /\ verdict' = Append(verdict, "failed")
                /\ UNCHANGED <<downloaded_count, links>>
           ELSE /\ \E link_ok \in BOOLEAN :
                       links' = IF link_ok
                                THEN links \cup {<<entry.taxonomy_str,
                                                   entry.genome_path>>}
                                ELSE links
                /\ downloaded_count' = downloaded_count + 1
                /\ verdict' = Append(verdict, "downloaded")
                /\ UNCHANGED failed_count
    /\ idx' = idx + 1
    /\ UNCHANGED <<pc, arg, ret, data, taxon, dry_run, aria2, fs,
                   matching_genomes, downloadable, missing_downloads,
                   batch_results, result, fallback_calls, batch_calls>>

\* lines 247-252: return failed_count == 0
Finish ==
    /\ pc = "reconcile"
    /\ idx > Len(downloadable)
    /\ result' = IF failed_count = 0 THEN "True" ELSE "False"
    /\ pc' = "done"
    /\ UNCHANGED <<arg, ret, data, taxon, dry_run, aria2, fs, links,
                   matching_genomes, idx, downloadable, failed_count,
                   downloaded_count, missing_downloads, batch_results,
                   fallback_calls, batch_calls, verdict>>

(***************************************************************************)
(* Inputs of a run                                                         *)
(***************************************************************************)
MaxRecords == 3

Tax_Ab == <<"d", "_", "_", "A", ";", "p", "_", "_", "A", "b">>
Tax_A  == <<"d", "_", "_", "A", ";", "p", "_", "_", "A">>

\* catalog rows, in file order: two that resolve to different files, one
\* whose identifier is too short for a link, one that resolves to the file
\* of the first
RecordPool ==
    << Row(<<"R", "S", "_", "G", "C", "F", "_", "0", "3", "4", "7", "1", "9",
             "2", ".", "1">>, Asm_1, Tax_Ab),
       Row(<<"G", "B", "_", "G", "C", "A", "_", "0", "3", "4", "7", "1", "9",
             "2", ".", "1">>, Asm_1, Tax_Ab),
       Row(<<"G", "C", "F", "_", "0", "3", "4", "7", "1", "9", ".", "1">>,
           Asm_1, Tax_Ab),
       Row(<<"G", "C", "F", "_", "0", "3", "4", "7", "1", "9", "2", ".", "1">>,
           Asm_1, Tax_A) >>

\* the rows of the pool at the positions in S, in pool order
RECURSIVE PickRows(_, _)
PickRows(S, k) ==
    IF k > Len(RecordPool) THEN <<>>
    ELSE (IF k \in S THEN <<Entry(RecordPool[k])>> ELSE <<>>)
         \o PickRows(S, k + 1)

Catalogs ==
    {PickRows(S, 1) : S \in {T \in SUBSET (1..Len(RecordPool)) :
                                 Cardinality(T) <= MaxRecords}}

RunQueries == {Comp_ab, Comp_dA, Comp_pA, <<";">>}

\* the genome files the pool's rows resolve to
PoolPaths ==
    {Filename(GenerateDownloadLink(RecordPool[k]).value) :
        k \in {j \in 1..Len(RecordPool) : ~GenerateDownloadLink(RecordPool[j]).raised}}

Init ==
    /\ pc = "find_matching"
    /\ arg = <<>>
    /\ ret = Return(<<>>)
    /\ data \in Catalogs
    /\ taxon \in RunQueries
    /\ dry_run \in BOOLEAN
    /\ aria2 \in BOOLEAN
    /\ fs \in SUBSET PoolPaths
    /\ links = {}
    /\ matching_genomes = <<>>
    /\ idx = 1
    /\ downloadable = <<>>
    /\ failed_count = 0
    /\ downloaded_count = 0
    /\ missing_downloads = <<>>
    /\ batch_results = EmptyMap
    /\ result = "none"
    /\ fallback_calls = <<>>
    /\ batch_calls = <<>>
    /\ verdict = <<>>

Next ==
    \/ FindMatching
    \/ PlanStep
    \/ SelectMissing
    \/ DownloadFilesAria2
    \/ FallbackStep
    \/ ReconcileStep
    \/ Finish

Spec == Init /\ [][Next]_vars

(***************************************************************************)
(* Properties of the run (checked under Spec)                              *)
(***************************************************************************)
\* the record of a matched id resolves to a download link
Resolvable(genome_id) ==
    /\ GetGenomeMetadata(data, genome_id).found
    /\ ~GenerateDownloadLink(GetGenomeMetadata(data, genome_id).row).raised

UrlOf(genome_id) ==
    GenerateDownloadLink(GetGenomeMetadata(data, genome_id).row).value

\* the (url, path) of the resolvable ids of a list whose file is not in
\* existing, in the order of the list
RECURSIVE ToFetch(_, _)
ToFetch(ids, existing) ==
    IF ids = <<>> THEN <<>>
    ELSE (IF Resolvable(Head(ids)) /\ Filename(UrlOf(Head(ids))) \notin existing
          THEN <<[url |-> UrlOf(Head(ids)),
                  genome_path |-> Filename(UrlOf(Head(ids)))]>>
          ELSE <<>>)
         \o ToFetch(Tail(ids), existing)

PathsOf(targets) == {targets[k].genome_path : k \in 1..Len(targets)}

\* the run went past planning
PastPlanning == pc \in {"batch", "fallback", "reconcile", "done"} /\ result # "raised"
                /\ ~dry_run /\ matching_genomes # <<>>

\* C7: without aria2c the run issues exactly one fallback transfer call for
\* every to-fetch entry, none for any other target and none to the batch
\* mechanism, in the order the entries were planned (that of the matched
\* records).
C7_FallbackOncePerEntryInOrder ==
    (~aria2 /\ PastPlanning) =>
        /\ batch_calls = <<>>
        /\ missing_downloads =
               ToFetch(matching_genomes, fs \ PathsOf(fallback_calls))
        /\ fallback_calls =
               SubSeq(missing_downloads, 1,
                      IF pc = "fallback" THEN idx - 1 ELSE Len(missing_downloads))

\* a finished run without aria2c made two fallback calls for the same target
\* (two records resolve to one file) and none for an entry already on disk
C7_Witness ==
    /\ pc = "done"
    /\ ~aria2
    /\ Len(fallback_calls) = 2
    /\ fallback_calls[1] = fallback_calls[2]
    /\ Len(downloadable) = 3

Count(list, x) == Cardinality({k \in 1..Len(list) : list[k] = x})

\* C8: in the reconciliation every planned entry whose target exists on disk
\* is counted as downloaded and not as failed, whatever the transfer result
\* map says or lacks for that target.
C8_ExistingFileCountsAsDownloaded ==
    (pc \in {"reconcile", "done"} /\ PastPlanning) =>
        /\ \A k \in 1..Len(verdict) :
               downloadable[k].genome_path \in fs => verdict[k] = "downloaded"
        /\ downloaded_count = Count(verdict, "downloaded")
        /\ failed_count = (Len(matching_genomes) - Len(downloadable))
                          + Count(verdict, "failed")

\* counted as downloaded: one entry whose transfer was reported failed but
\* left the file, and one whose file was there before and has no report
C8_Witness ==
    /\ pc = "done"
    /\ \E k \in 1..Len(verdict) :
           /\ verdict[k] = "downloaded"
           /\ downloadable[k].genome_path \in DOMAIN batch_results
           /\ ~batch_results[downloadable[k].genome_path]
    /\ \E k \in 1..Len(verdict) :
           /\ verdict[k] = "downloaded"
           /\ downloadable[k].genome_path \notin DOMAIN batch_results
    /\ failed_count = 0

\* the plan entries of the resolvable ids of a list, in order
RECURSIVE PlanOf(_)
PlanOf(ids) ==
    IF ids = <<>> THEN <<>>
    ELSE (IF Resolvable(Head(ids))
          THEN <<[genome_id    |-> Head(ids),
                  taxonomy_str |-> GetGenomeMetadata(data, Head(ids)).row.gtdb_taxonomy,
                  url          |-> UrlOf(Head(ids)),
                  genome_path  |-> Filename(UrlOf(Head(ids)))]>>
          ELSE <<>>)
         \o PlanOf(Tail(ids))

\* C9: a matched record whose metadata, taxonomy or URL cannot be resolved
\* is skipped and adds exactly one to the failure counter; it is never handed
\* to a transfer mechanism; every other matched record is planned,
\* transferred and reconciled all the same.
C9_ResolutionFailureSkipsOnlyThatRecord ==
    ((pc = "plan" \/ PastPlanning) /\ ~dry_run) =>
        LET n == IF pc = "plan" THEN idx - 1 ELSE Len(matching_genomes)
        IN  /\ downloadable = PlanOf(SubSeq(matching_genomes, 1, n))
            /\ failed_count - Count(verdict, "failed") = n - Len(downloadable)
            /\ \A k \in 1..Len(fallback_calls) :
                   \E j \in 1..Len(downloadable) :
                       /\ fallback_calls[k].url = downloadable[j].url
                       /\ fallback_calls[k].genome_path = downloadable[j].genome_path
            /\ \A b \in 1..Len(batch_calls) :
                   batch_calls[b] = ToFetch(matching_genomes,
                                            fs \ DOMAIN batch_results)
            /\ pc = "done" => Len(verdict) = Len(downloadable)

\* a finished run in which the second of three matched records could not be
\* resolved and the other two were transferred and counted as downloaded
C9_Witness ==
    /\ pc = "done"
    /\ Len(matching_genomes) = 3
    /\ ~Resolvable(matching_genomes[2])
    /\ Len(fallback_calls) = 2
    /\ failed_count = 1
    /\ downloaded_count = 2

\* a record of the catalog matches the query, in the specification's words
MatchesQuery(query_text, taxonomy) ==
    LET qc == Segments(query_text)
        tc == Segments(taxonomy)
    IN  /\ qc # <<>>
        /\ IF Len(qc) > 1
           THEN /\ Len(tc) >= Len(qc)
                /\ \A i \in 1..Len(qc) : ComponentEq(qc[i], tc[i])
           ELSE \E i \in 1..Len(tc) : ComponentEq(qc[1], tc[i])

RunEnded == pc \in {"done", "crashed"}

\* C10: a non-dry run with at least one matching record returns success
\* exactly when no record was counted as failed; a run whose query matches
\* no record returns failure without planning or transferring anything.
C10_ReturnValue ==
    (RunEnded /\ ~dry_run) =>
        IF \E k \in 1..Len(data) : MatchesQuery(taxon, data[k].row.gtdb_taxonomy)
        THEN result = (IF /\ Len(downloadable) = Len(matching_genomes)
                          /\ Count(verdict, "failed") = 0
                       THEN "True" ELSE "False")
        ELSE /\ result = "False"
             /\ downloadable = <<>>
             /\ fallback_calls = <<>>
             /\ batch_calls = <<>>

\* C10 for the runs in which the matching itself does not fail
C10_ReturnValueUnlessMatchingRaises ==
    (RunEnded /\ ~dry_run /\ ~GetGenomesByTaxon(data, taxon).raised) => C10_ReturnValue

(***************************************************************************)
(* metadata.py: species-cluster representatives                            *)
(***************************************************************************)
\* a csv.DictReader row with the identifier, marker and representative
\* columns; an absent column reads as the empty string
RepRow(accession, genome, taxonomy, m1, m2, m3, r1, r2, r3) ==
    [accession |-> accession, Genome |-> genome, gtdb_taxonomy |-> taxonomy,
     gtdb_representative |-> m1, species_representative |-> m2,
     is_representative |-> m3,
     gtdb_genome_representative |-> r1,
     species_cluster_representative |-> r2,
     gtdb_species_representative |-> r3]

RowIdAccessionOnly(row) == row.accession

\* row.get("accession") or row.get("Genome")
RowId(row) == IF row.accession # <<>> THEN row.accession ELSE row.Genome

NormalizeAccessionKeepPrefix(accession) ==
    IF accession = <<>> THEN <<>> ELSE Strip(accession)

\* _normalize_accession: strip blanks, then one leading RS_ or GB_
NormalizeAccession(accession) ==
    IF accession = <<>> THEN <<>>
    ELSE LET value == Strip(accession)
         IN  IF StartsWith(value, Str_RS) \/ StartsWith(value, Str_GB)
             THEN SliceFrom(value, 3)
             ELSE value

\* the representative columns, in the order they are tried
RepresentativeKeys ==
    <<"gtdb_genome_representative", "species_cluster_representative",
      "gtdb_species_representative">>

\* the marker columns, in the order they are tried
MarkerKeys ==
    <<"gtdb_representative", "species_representative", "is_representative">>

TruthyValues ==
    { <<"t">>, <<"t", "r", "u", "e">>, <<"1">>, <<"y", "e", "s">>, <<"y">> }

\* get_species_cluster_representative: the first representative column that
\* is non-empty after normalization, or None
GetSpeciesClusterRepresentative(rows, genome_id) ==
    LET found == GetGenomeMetadata(rows, genome_id)
    IN  IF ~found.found THEN [found |-> FALSE, value |-> <<>>]
        ELSE LET hits == {k \in 1..Len(RepresentativeKeys) :
                             NormalizeAccession(found.row[RepresentativeKeys[k]]) # <<>>}
             IN  IF hits = {} THEN [found |-> FALSE, value |-> <<>>]
                 ELSE LET first == CHOOSE k \in hits : \A j \in hits : k <= j
                      IN  [found |-> TRUE,
                           value |-> NormalizeAccession(
                                         found.row[RepresentativeKeys[first]])]

\* is_species_cluster_representative
IsSpeciesClusterRepresentative(rows, genome_id) ==
    LET found == GetGenomeMetadata(rows, genome_id)
    IN  IF ~found.found THEN FALSE
        ELSE IF \E k \in 1..Len(MarkerKeys) :
                    Lower(Strip(found.row[MarkerKeys[k]])) \in TruthyValues
        THEN TRUE
        ELSE LET accession      == NormalizeAccession(RowId(found.row))
                 representative == GetSpeciesClusterRepresentative(rows, genome_id)
             IN  /\ accession # <<>>
                 /\ representative.found
                 /\ accession = representative.value

(***************************************************************************)
(* metadata.py: loading the catalog                                        *)
(***************************************************************************)
\* self.data[genome_id] = row: a known key keeps its place and takes the
\* new row, a new key goes to the end
DictPut(entries, genome_id, row) ==
    IF \E k \in 1..Len(entries) : entries[k].id = genome_id
    THEN [k \in 1..Len(entries) |->
              IF entries[k].id = genome_id
              THEN [id |-> genome_id, row |-> row] ELSE entries[k]]
    ELSE Append(entries, [id |-> genome_id, row |-> row])

\* the reader loop of _load_from_csv / _load_from_gzip
RECURSIVE LoadRows(_, _)
LoadRows(table, entries) ==
    IF table = <<>> THEN entries
    ELSE LET row       == Head(table)
             genome_id == RowId(row)
         IN  LoadRows(Tail(table),
                      IF genome_id # <<>> THEN DictPut(entries, genome_id, row)
                      ELSE entries)

(***************************************************************************)
(* SpecRep: one call of is_species_cluster_representative on the catalog   *)
(* loaded from a table of one row                                          *)
(***************************************************************************)
Id_1    == <<"G", "C", "F", "_", "1">>
Id_2    == <<"G", "C", "F", "_", "2">>
Blank   == <<" ">>

RepAccessions == {<<>>, Id_1, Str_RS \o Id_1, Str_GB \o Id_1, Id_2,
                  Str_RS \o Id_1 \o Blank}
RepGenomes    == {<<>>, Str_GB \o Id_1}
Markers1      == {<<>>, <<"t">>, <<"f">>, <<" ", "T", "R", "U", "E", " ">>}
Markers2      == {<<>>, <<"Y", "e", "s">>, <<"n", "o">>}
Markers3      == {<<>>, <<"1">>, <<"y">>, <<"0">>}
Representatives1 == {<<>>, Id_1, Str_RS \o Id_1, Id_2, Blank}
Representatives2 == {<<>>, Str_GB \o Id_1, Id_2}
Representatives3 == {<<>>, Id_1}

RepRows ==
    {RepRow(a, g, <<>>, m1, m2, m3, r1, r2, r3) :
        a \in RepAccessions, g \in RepGenomes,
        m1 \in Markers1, m2 \in Markers2, m3 \in Markers3,
        r1 \in Representatives1, r2 \in Representatives2,
        r3 \in Representatives3}

InitRep ==
    /\ pc = "call_rep"
    /\ \E row \in RepRows :
           arg = [row |-> row, data |-> LoadRows(<<row>>, <<>>),
                  genome_id |-> RowId(row)]
    /\ ret = Return(FALSE)
    /\ RunIdle

CallIsSpeciesClusterRepresentative ==
    /\ pc = "call_rep"
    /\ ret' = Return(IsSpeciesClusterRepresentative(arg.data, arg.genome_id))
    /\ pc' = "returned_rep"
    /\ UNCHANGED <<arg, runVars>>

NextRep == CallIsSpeciesClusterRepresentative

SpecRep == InitRep /\ [][NextRep]_vars

(***************************************************************************)
(* Properties of representative detection (checked under SpecRep)          *)
(***************************************************************************)
RepReturned == pc = "returned_rep" /\ arg.data # <<>>

\* a marker column of the row carries a value
MarkerPresent(row) == \E k \in 1..Len(MarkerKeys) : row[MarkerKeys[k]] # <<>>

\* a marker column of the row carries one of t, true, 1, yes, y in any case
MarkerTruthy(row) ==
    \E k \in 1..Len(MarkerKeys) :
        LET v == Strip(row[MarkerKeys[k]])
        IN  \E t \in TruthyValues :
                /\ Len(v) = Len(t)
                /\ \A i \in 1..Len(t) : LowerChar(v[i]) = t[i]

\* s without one leading RS_ or GB_
WithoutSourcePrefix(s) ==
    IF Len(s) >= 3 /\ SubSeq(s, 1, 3) \in {Str_RS, Str_GB}
    THEN SubSeq(s, 4, Len(s)) ELSE s

\* the record's representative columns that carry a value, in priority order
NonEmptyRepresentatives(row) ==
    SelectSeq([k \in 1..Len(RepresentativeKeys) |-> row[RepresentativeKeys[k]]],
              LAMBDA v : v # <<>>)

\* the accession and the first non-empty representative column agree up to
\* the source prefix
SelfRepresentative(row) ==
    /\ NonEmptyRepresentatives(row) # <<>>
    /\ WithoutSourcePrefix(RowId(row))
           = WithoutSourcePrefix(NonEmptyRepresentatives(row)[1])

\* C11: when a record carries a representative marker, the answer of
\* is_species_cluster_representative is that of the marker alone: true
\* exactly when the marker is one of t, true, 1, yes, y (in any case); the
\* accession comparison is used only when no marker is present.
C11_MarkerAloneDecides ==
    (RepReturned /\ MarkerPresent(arg.row)) =>
        ret.value = MarkerTruthy(arg.row)

\* the part of C11 the code keeps: a truthy marker answers true whatever
\* the accessions are, and without any marker the comparison answers
C11_TruthyMarkerOrComparison ==
    RepReturned =>
        /\ MarkerTruthy(arg.row) => ret.value
        /\ (~MarkerPresent(arg.row) /\ ret.value) =>
               \E k \in 1..Len(RepresentativeKeys) :
                   WithoutSourcePrefix(Strip(RowId(arg.row)))
                       = WithoutSourcePrefix(Strip(arg.row[RepresentativeKeys[k]]))

\* C12: for a record without a truthy marker, the answer is true whenever
\* the record's accession and its first non-empty representative column are
\* equal after an RS_ or GB_ prefix is removed from each, whichever of the
\* two carries the prefix.
C12_PrefixInsensitive ==
    (RepReturned /\ ~MarkerTruthy(arg.row) /\ SelfRepresentative(arg.row)) =>
        ret.value

\* accession RS_GCF_1 with representative GCF_1 and no marker at all was
\* answered true
C12_Witness ==
    /\ RepReturned
    /\ ~MarkerPresent(arg.row)
    /\ arg.row.accession = Str_RS \o Id_1
    /\ arg.row.gtdb_genome_representative = Id_1
    /\ ret.value

(***************************************************************************)
(* SpecLoad: MetadataParser(metadata_path), then any number of read        *)
(* operations on the loaded catalog                                        *)
(***************************************************************************)
MaxRows == 3

\* rows of a metadata table: identified by accession, identified by Genome
\* only, without identifier, a second row for the first accession, and a
\* row whose Genome repeats the first accession
LoadRowPool ==
    { RepRow(Str_RS \o Id_1, <<>>, Tax_Ab, <<"f">>, <<>>, <<>>, Id_1, <<>>, <<>>),
      RepRow(<<>>, Str_GB \o Id_2, Tax_Ab, <<>>, <<>>, <<>>, <<>>, Id_1, <<>>),
      RepRow(<<>>, <<>>, Tax_A, <<"t">>, <<>>, <<>>, <<>>, <<>>, <<>>),
      RepRow(Str_RS \o Id_1, Str_GB \o Id_2, Tax_A, <<>>, <<>>, <<>>, <<>>, <<>>, <<>>),
      RepRow(<<>>, Str_RS \o Id_1, Tax_A, <<>>, <<>>, <<>>, <<>>, <<>>, Id_2) }

Tables == SeqsUpTo(LoadRowPool, MaxRows)

LoadQueries == {Comp_dA, Comp_ab, <<";">>}

LoadIds == {Str_RS \o Id_1, Str_GB \o Id_2, Id_1}

\* the answer of an operation on the parser
Answer(op, raised, value) == [op |-> op, raised |-> raised, value |-> value]

InitLoad ==
    /\ pc = "load"
    /\ \E readable \in BOOLEAN, table \in Tables :
           arg = [readable |-> readable, table |-> table]
    /\ ret = Answer("none", FALSE, <<>>)
    /\ RunIdle

\* __init__ / _load_metadata: open() raises for an unreadable file, else the
\* reader loop fills self.data
LoadMetadata ==
    /\ pc = "load"
    /\ IF ~arg.readable
       THEN /\ pc' = "load_failed"
            /\ ret' = Answer("load", TRUE, <<>>)
            /\ UNCHANGED data
       ELSE /\ pc' = "loaded"
            /\ ret' = Answer("load", FALSE, <<>>)
            /\ data' = LoadRows(arg.table, <<>>)
    /\ UNCHANGED <<arg, taxon, dry_run, aria2, fs, links, matching_genomes,
                   idx, downloadable, failed_count, downloaded_count,
                   missing_downloads, batch_results, result, fallback_calls,
                   batch_calls, verdict>>

\* parser.get_genomes_by_taxon(taxon)
LookupByTaxon ==
    /\ pc = "loaded"
    /\ \E q \in LoadQueries :
           LET found == GetGenomesByTaxon(data, q)
           IN  ret' = Answer("by_taxon", found.raised, found.value)
    /\ UNCHANGED <<pc, arg, runVars>>

\* parser.get_genome_metadata(genome_id)
LookupMetadata ==
    /\ pc = "loaded"
    /\ \E genome_id \in LoadIds :
           LET found == GetGenomeMetadata(data, genome_id)
           IN  ret' = Answer("metadata", FALSE,
                             IF found.found THEN <<found.row>> ELSE <<>>)
    /\ UNCHANGED <<pc, arg, runVars>>

\* parser.is_species_cluster_representative(genome_id)
LookupIsRepresentative ==
    /\ pc = "loaded"
    /\ \E genome_id \in LoadIds :
           ret' = Answer("is_rep", FALSE,
                         IsSpeciesClusterRepresentative(data, genome_id))
    /\ UNCHANGED <<pc, arg, runVars>>

\* parser.get_species_cluster_representative(genome_id)
LookupRepresentative ==
    /\ pc = "loaded"
    /\ \E genome_id \in LoadIds :
           LET rep == GetSpeciesClusterRepresentative(data, genome_id)
           IN  ret' = Answer("rep", FALSE,
                             IF rep.found THEN <<rep.value>> ELSE <<>>)
    /\ UNCHANGED <<pc, arg, runVars>>

NextLoad ==
    \/ LoadMetadata
    \/ LookupByTaxon
    \/ LookupMetadata
    \/ LookupIsRepresentative
    \/ LookupRepresentative

SpecLoad == InitLoad /\ [][NextLoad]_vars

(***************************************************************************)
(* Properties of the load (checked under SpecLoad)                         *)
(***************************************************************************)
\* a row's identifier in the specification's words
IdentifierOf(row) ==
    IF Len(row.accession) > 0 THEN row.accession
    ELSE IF Len(row.Genome) > 0 THEN row.Genome
    ELSE <<>>

IdentifiersIn(table) ==
    {IdentifierOf(table[k]) : k \in 1..Len(table)} \ {<<>>}

\* C13: loading a table in which no row carries a non-empty accession or
\* Genome value fails with a load error; it never completes normally with an
\* empty catalog.
C13_NoAccessionColumnFails ==
    (pc # "load" /\ IdentifiersIn(arg.table) = {}) => pc = "load_failed"

\* the load of an unreadable file does fail, and a table with identifiers
\* loads normally
C13_UnreadableFails ==
    pc # "load" => (pc = "load_failed" <=> ~arg.readable)

\* C15: after load, the catalog holds exactly one entry per distinct
\* identifier (accession, else Genome) of the table; rows with neither are
\* dropped without error; every entry's row is a row of the table under its
\* own identifier, unmodified; and no later matching, lookup or
\* representative operation changes the catalog.
C15_CatalogIsTheIdentifiedRows ==
    (pc # "load" /\ arg.readable) =>
        /\ pc = "loaded"
        /\ {data[k].id : k \in 1..Len(data)} = IdentifiersIn(arg.table)
        /\ \A j, k \in 1..Len(data) : data[j].id = data[k].id => j = k
        /\ \A k \in 1..Len(data) :
               \E i \in 1..Len(arg.table) :
                   /\ arg.table[i] = data[k].row
                   /\ IdentifierOf(arg.table[i]) = data[k].id

\* a table of three rows, one of them without identifier and two under the
\* same identifier, was loaded into one entry, and a matching over it then
\* answered with that entry
C15_Witness ==
    /\ pc = "loaded"
    /\ Len(arg.table) = 3
    /\ Len(data) = 1
    /\ \E i \in 1..3 : IdentifierOf(arg.table[i]) = <<>>
    /\ arg.table[1].accession = <<>>
    /\ arg.table[1].Genome # <<>>
    /\ ret.op = "by_taxon"
    /\ ~ret.raised
    /\ ret.value = <<data[1].id>>

(***************************************************************************)
(* Further properties of the run (checked under Spec)                      *)
(***************************************************************************)
\* the file of a planned entry is there, or its transfer was reported good
Fetched(entry) ==
    \/ entry.genome_path \in fs
    \/ (entry.genome_path \in DOMAIN batch_results
        /\ batch_results[entry.genome_path])

Linked(entry) == <<entry.taxonomy_str, entry.genome_path>> \in links

Reconciled == {k \in 1..Len(verdict) : k <= Len(downloadable)}

\* C14: a failure to create the taxonomy link of a fetched record is not
\* fatal: the record is still counted as downloaded, the failure counter
\* does not move for it, and the records after it are processed as well.
C14_LinkFailureNonFatal ==
    (pc \in {"reconcile", "done"} /\ PastPlanning) =>
        /\ \A k \in Reconciled :
               (Fetched(downloadable[k]) /\ ~Linked(downloadable[k]))
                   => verdict[k] = "downloaded"
        /\ downloaded_count =
               Cardinality({k \in Reconciled : Fetched(downloadable[k])})
        /\ failed_count =
               (Len(matching_genomes) - Len(downloadable))
               + Cardinality({k \in Reconciled : ~Fetched(downloadable[k])})
        /\ pc = "done" => Len(verdict) = Len(downloadable)

\* a finished run in which the link of the first fetched record could not
\* be made, the record after it was processed and linked, and nothing was
\* counted as failed
C14_Witness ==
    /\ pc = "done"
    /\ Len(verdict) = 2
    /\ Fetched(downloadable[1])
    /\ ~Linked(downloadable[1])
    /\ verdict[1] = "downloaded"
    /\ Linked(downloadable[2])
    /\ verdict[2] = "downloaded"
    /\ downloaded_count = 2
    /\ failed_count = 0

\* C16: at the end of every non-dry run that reached planning, every matched
\* record has been counted exactly once, as downloaded or as failed.
C16_EveryMatchCountedOnce ==
    (pc = "done" /\ PastPlanning) =>
        downloaded_count + failed_count = Len(matching_genomes)

\* a finished run over three matched records: one could not be resolved,
\* one had its file before the run, one failed in the transfer and one link
\* could not be made
C16_Witness ==
    /\ pc = "done"
    /\ Len(matching_genomes) = 3
    /\ Len(downloadable) = 2
    /\ \E k \in 1..2 :
           /\ verdict[k] = "downloaded"
           /\ downloadable[k].genome_path \notin DOMAIN batch_results
           /\ ~Linked(downloadable[k])
    /\ \E k \in 1..2 :
           /\ verdict[k] = "failed"
           /\ downloadable[k].genome_path \in DOMAIN batch_results
    /\ downloaded_count = 1
    /\ failed_count = 2

\* what was handed to the transfer mechanisms comes from the to-fetch list,
\* and nothing was handed over for an empty list or in a dry run
SubmittedFromToFetch ==
    /\ Len(fallback_calls) <= Len(missing_downloads)
    /\ \A k \in 1..Len(fallback_calls) : fallback_calls[k] = missing_downloads[k]
    /\ Len(batch_calls) <= 1
    /\ \A b \in 1..Len(batch_calls) : batch_calls[b] = missing_downloads
    /\ (missing_downloads = <<>> \/ dry_run) =>
           (fallback_calls = <<>> /\ batch_calls = <<>>)

\* the step that ends planning fixes the to-fetch list from the files on
\* disk at that moment, and no later step changes the list
ToFetchFixedAtPlanningEnd ==
    /\ (pc = "plan" /\ pc' # "plan") =>
           /\ missing_downloads' = ToFetch(matching_genomes, fs)
           /\ fs' = fs
    /\ pc # "plan" => missing_downloads' = missing_downloads

\* C17: the to-fetch list is exactly the planned entries whose target file
\* does not exist when planning finishes, in planning order; an entry whose
\* target exists then is never submitted to the batch or the fallback
\* transfer; with an empty to-fetch list, or in a dry run, no transfer
\* mechanism is invoked.
C17_ToFetchIsTheMissingPlan ==
    [][ToFetchFixedAtPlanningEnd]_vars /\ []SubmittedFromToFetch

\* a finished run with aria2c over two planned entries: the file of the
\* first was on disk and was not submitted, the second alone went to the
\* one batch call
C17_Witness ==
    /\ pc = "done"
    /\ aria2
    /\ Len(downloadable) = 2
    /\ downloadable[1].genome_path \in fs
    /\ downloadable[1].genome_path \notin DOMAIN batch_results
    /\ Len(missing_downloads) = 1
    /\ missing_downloads[1].genome_path = downloadable[2].genome_path
    /\ batch_calls = <<missing_downloads>>
    /\ fallback_calls = <<>>

====
